---- MODULE Spec2Model ----
(***************************************************************************)
(* Model of examples/quickstart/before.py: a linear script that loads a    *)
(* .env file into the process environment, opens an OpenAI client in a     *)
(* `with` block, issues one chat-completion request inside the block and   *)
(* prints the response object after the block has been left.               *)
(*                                                                         *)
(* The remote service and the contents of the environment / .env file are  *)
(* the inputs: they are chosen nondeterministically.  Text is modelled as  *)
(* a sequence of symbols; NL, BS, SQ and DQ stand for the newline, the     *)
(* backslash, the single quote and the double quote characters.            *)
(***************************************************************************)
EXTENDS Naturals, Sequences, FiniteSets

\* Longest message content the modelled service returns.
MaxLen == 3

\* An unset variable: a value no string is equal to.
NoValue == <<"unset">>
NoResponse == [role |-> "none", content |-> <<>>]

API_KEY == "OPENAI_API_KEY"
EnvKeys == {API_KEY, "OPENAI_ORG_ID"}

\* Values of an environment variable: unset, the empty string, a secret.
\* "K" is a symbol that only credential material is made of.
EnvValues == {NoValue, <<>>, <<"K">>}

NL == "NL"
BS == "BS"
SQ == "SQ"
DQ == "DQ"
Alphabet == {"n", NL, BS, SQ, DQ}

BoundedSeq(S, n) == UNION {[1..m -> S] : m \in 0..n}
Contents == BoundedSeq(Alphabet, MaxLen)

RequestErrors ==
    {"ValidationError", "ServiceError", "ConnectionError", "AuthenticationError"}

VARIABLES
    pc,        \* position in the module body
    environ,   \* os.environ, restricted to EnvKeys
    dotenv,    \* the .env file: whether it exists and the value it gives each key
    client,    \* the OpenAI client handle: its state and the key it holds
    request,   \* the payload handed to chat.completions.create
    response,  \* the variable `response`
    error,     \* the exception propagating out of the script, or "none"
    netCalls,  \* requests put on the network
    inFlight,  \* requests sent and not yet answered
    released,  \* number of times the client was closed
    stdout,    \* the writes made to standard output, in order
    trace      \* the steps executed, in order

vars == <<pc, environ, dotenv, client, request, response, error,
          netCalls, inFlight, released, stdout, trace>>

NoClient == [state |-> "none", api_key |-> NoValue]
NoRequest == [model |-> "", messages |-> <<>>]

Range(s) == {s[i] : i \in 1..Len(s)}

\* The working directory has no .env file.
NoFile == [present |-> FALSE, vars |-> [k \in EnvKeys |-> NoValue]]
DotenvFiles ==
    {NoFile} \cup {[present |-> TRUE, vars |-> f] : f \in [EnvKeys -> EnvValues]}

----------------------------------------------------------------------------
\* load_dotenv(): override=False, so a variable already set wins.

MergeClobber(env, file) ==
    IF ~file.present THEN [k \in EnvKeys |-> NoValue]
    ELSE [k \in EnvKeys |-> file.vars[k]]

Merge(env, file) ==
    IF ~file.present THEN env
    ELSE [k \in EnvKeys |-> IF env[k] # NoValue THEN env[k] ELSE file.vars[k]]

LoadDotenv ==
    /\ pc = "start"
    /\ environ' = Merge(environ, dotenv)
    /\ pc' = "loaded"
    /\ trace' = Append(trace, "load_dotenv")
    /\ UNCHANGED <<dotenv, client, request, response, error,
                   netCalls, inFlight, released, stdout>>

----------------------------------------------------------------------------
\* with OpenAI() as client: the constructor reads OPENAI_API_KEY from the
\* environment and raises when it is not set; __enter__ returns the client.

ConstructNoKeyCheck ==
    /\ pc = "loaded"
    /\ trace' = Append(trace, "OpenAI")
    /\ client' = [state |-> "live", api_key |-> environ[API_KEY]]
    /\ pc' = "entered"
    /\ UNCHANGED <<environ, dotenv, request, response, error,
                   netCalls, inFlight, released, stdout>>

ConstructThenClose ==
    /\ pc = "loaded"
    /\ trace' = Append(trace, "OpenAI")
    /\ IF environ[API_KEY] = NoValue
       THEN /\ error' = "AuthenticationError"
            /\ pc' = "aborted"
            /\ UNCHANGED client
       ELSE /\ client' = [state |-> "closed", api_key |-> environ[API_KEY]]
            /\ pc' = "entered"
            /\ UNCHANGED error
    /\ UNCHANGED <<environ, dotenv, request, response,
                   netCalls, inFlight, released, stdout>>

Construct ==
    /\ pc = "loaded"
    /\ trace' = Append(trace, "OpenAI")
    /\ IF environ[API_KEY] = NoValue
       THEN /\ error' = "AuthenticationError"
            /\ pc' = "aborted"
            /\ UNCHANGED client
       ELSE /\ client' = [state |-> "live", api_key |-> environ[API_KEY]]
            /\ pc' = "entered"
            /\ UNCHANGED error
    /\ UNCHANGED <<environ, dotenv, request, response,
                   netCalls, inFlight, released, stdout>>

----------------------------------------------------------------------------
\* client.chat.completions.create(model=..., messages=[...]): the call
\* sends the payload and blocks until the service answers or fails.

Payload ==
    [model |-> "gpt-4o-mini",
     messages |-> <<[role |-> "user",
                     content |-> "Write a haiku about artificial intelligence."]>>]

CreateSend ==
    /\ pc = "entered"
    /\ request' = Payload
    /\ netCalls' = netCalls + 1
    /\ inFlight' = inFlight + 1
    /\ pc' = "waiting"
    /\ trace' = Append(trace, "create")
    /\ UNCHANGED <<environ, dotenv, client, response, error, released, stdout>>

CreateReturn ==
    /\ pc = "waiting"
    /\ \E c \in Contents :
          response' = [role |-> "assistant", content |-> c]
    /\ inFlight' = inFlight - 1
    /\ pc' = "returned"
    /\ UNCHANGED <<environ, dotenv, client, request, error,
                   netCalls, released, stdout, trace>>

CreateRaiseRetry ==
    /\ pc = "waiting"
    /\ inFlight' = inFlight - 1
    /\ IF netCalls < 2
       THEN /\ pc' = "entered"
            /\ UNCHANGED error
       ELSE /\ \E e \in RequestErrors : error' = e
            /\ pc' = "raising"
    /\ UNCHANGED <<environ, dotenv, client, request, response,
                   netCalls, released, stdout, trace>>

CreateRaise ==
    /\ pc = "waiting"
    /\ \E e \in RequestErrors : error' = e
    /\ inFlight' = inFlight - 1
    /\ pc' = "raising"
    /\ UNCHANGED <<environ, dotenv, client, request, response,
                   netCalls, released, stdout, trace>>

----------------------------------------------------------------------------
\* Leaving the with block: __exit__ closes the client on the normal and on
\* the exceptional path and does not swallow the exception.

WithExitLeak ==
    /\ pc \in {"returned", "raising"}
    /\ IF pc = "returned"
       THEN /\ client' = [client EXCEPT !.state = "closed"]
            /\ released' = released + 1
            /\ trace' = Append(trace, "exit")
            /\ pc' = "exited"
       ELSE /\ pc' = "aborted"
            /\ UNCHANGED <<client, released, trace>>
    /\ UNCHANGED <<environ, dotenv, request, response, error,
                   netCalls, inFlight, stdout>>

WithExitSwallow ==
    /\ pc \in {"returned", "raising"}
    /\ client' = [client EXCEPT !.state = "closed"]
    /\ released' = released + 1
    /\ trace' = Append(trace, "exit")
    /\ pc' = "exited"
    /\ UNCHANGED <<environ, dotenv, request, response, error,
                   netCalls, inFlight, stdout>>

WithExit ==
    /\ pc \in {"returned", "raising"}
    /\ client' = [client EXCEPT !.state = "closed"]
    /\ released' = released + 1
    /\ trace' = Append(trace, "exit")
    /\ pc' = IF pc = "returned" THEN "exited" ELSE "aborted"
    /\ UNCHANGED <<environ, dotenv, request, response, error,
                   netCalls, inFlight, stdout>>

----------------------------------------------------------------------------
\* print(response): writes str(response) and a newline.  The response
\* model's string form shows each field with repr(), so the content
\* appears as a Python string literal.

Quote(s) == IF SQ \in Range(s) /\ DQ \notin Range(s) THEN DQ ELSE SQ

Escape(c, q) ==
    IF c = BS THEN <<BS, BS>>
    ELSE IF c = NL THEN <<BS, "n">>
    ELSE IF c = q THEN <<BS, c>>
    ELSE <<c>>

RECURSIVE EscapeAll(_, _)
EscapeAll(s, q) ==
    IF s = <<>> THEN <<>>
    ELSE Escape(Head(s), q) \o EscapeAll(Tail(s), q)

Repr(s) == <<Quote(s)>> \o EscapeAll(s, Quote(s)) \o <<Quote(s)>>

StrNoContent(r) ==
    IF r = NoResponse THEN <<"None">>
    ELSE <<"ChatCompletion(id=...)">>

Str(r) ==
    IF r = NoResponse THEN <<"None">>
    ELSE <<"ChatCompletion(choices=[Choice(message=ChatCompletionMessage(content=">>
         \o Repr(r.content)
         \o <<", role='assistant'))])">>

PrintInsideWith ==
    /\ pc = "returned"
    /\ stdout' = Append(stdout, Str(response) \o <<NL>>)
    /\ client' = [client EXCEPT !.state = "closed"]
    /\ released' = released + 1
    /\ trace' = trace \o <<"print", "exit">>
    /\ pc' = "done"
    /\ UNCHANGED <<environ, dotenv, request, response, error,
                   netCalls, inFlight>>

PrintClient ==
    /\ pc = "exited"
    /\ stdout' = Append(stdout, <<"OpenAI(api_key=">> \o client.api_key \o <<")">>
                                \o Str(response) \o <<NL>>)
    /\ pc' = "done"
    /\ trace' = Append(trace, "print")
    /\ UNCHANGED <<environ, dotenv, client, request, response, error,
                   netCalls, inFlight, released>>

PrintResponse ==
    /\ pc = "exited"
    /\ stdout' = Append(stdout, Str(response) \o <<NL>>)
    /\ pc' = "done"
    /\ trace' = Append(trace, "print")
    /\ UNCHANGED <<environ, dotenv, client, request, response, error,
                   netCalls, inFlight, released>>

----------------------------------------------------------------------------
Init ==
    /\ pc = "start"
    /\ environ \in [EnvKeys -> EnvValues]
    /\ dotenv \in DotenvFiles
    /\ client = NoClient
    /\ request = NoRequest
    /\ response = NoResponse
    /\ error = "none"
    /\ netCalls = 0
    /\ inFlight = 0
    /\ released = 0
    /\ stdout = <<>>
    /\ trace = <<>>

Next ==
    \/ LoadDotenv
    \/ Construct
    \/ CreateSend
    \/ CreateReturn
    \/ CreateRaise
    \/ WithExit
    \/ PrintResponse

Spec == Init /\ [][Next]_vars

----------------------------------------------------------------------------
\* Helpers for the properties.

Terminal == {"done", "aborted"}

Count(s, x) == Cardinality({i \in 1..Len(s) : s[i] = x})

\* t occurs in s as a contiguous run of symbols.
Contains(s, t) ==
    \E i \in 0..(Len(s) - Len(t)) : \A j \in 1..Len(t) : s[i + j] = t[j]


\* repr() leaves the content as it is: nothing in it needs a backslash.
Plain(s) ==
    /\ BS \notin Range(s)
    /\ NL \notin Range(s)
    /\ ~(SQ \in Range(s) /\ DQ \in Range(s))

Written == IF stdout = <<>> THEN <<>> ELSE stdout[1]

----------------------------------------------------------------------------
\* C1: in every terminal state of a run that constructed the client, the
\* client has been released exactly once; it is never released twice.
C1_ReleasedExactlyOnce ==
    /\ released <= 1
    /\ (pc \in Terminal /\ client.state # "none") => released = 1

\* A request that failed with ServiceError has ended with the client released.
C1_Witness ==
    pc = "aborted" /\ error = "ServiceError" /\ released = 1

\* C2: with OPENAI_API_KEY unset once load_dotenv has run, the construction
\* of the client fails with AuthenticationError, no client exists, and no
\* network call has been made then or in any later state.
C2_MissingKeyFailsFast ==
    (pc \notin {"start", "loaded"} /\ environ[API_KEY] = NoValue) =>
        /\ pc = "aborted"
        /\ error = "AuthenticationError"
        /\ client = NoClient
        /\ netCalls = 0
        /\ inFlight = 0

\* The key is in neither the environment nor a .env file, and the run is over.
C2_Witness ==
    /\ pc = "aborted"
    /\ ~dotenv.present
    /\ environ[API_KEY] = NoValue
    /\ trace = <<"load_dotenv", "OpenAI">>

\* C3, as claimed: a successful run is load, construct, request, render,
\* release, each once, the response being rendered before the release.
C3_RenderBeforeRelease ==
    pc = "done" =>
        trace = <<"load_dotenv", "OpenAI", "create", "print", "exit">>

\* C3, amended: a successful run is load, construct, request, release,
\* render, each once: the response is rendered after the client is released.
C3_ReleaseBeforeRender ==
    pc = "done" =>
        /\ trace = <<"load_dotenv", "OpenAI", "create", "exit", "print">>
        /\ client.state = "closed"

C3_Witness ==
    pc = "done" /\ Len(trace) = 5 /\ released = 1 /\ Len(stdout) = 1

\* C4: standard output is written at most once, only by the final print of
\* a run whose request returned a response; an aborted run writes nothing,
\* a successful run has written exactly once.
C4_OutputOnlyOnSuccess ==
    /\ Len(stdout) <= 1
    /\ stdout # <<>> =>
          /\ pc = "done"
          /\ error = "none"
          /\ response # NoResponse
          /\ trace[Len(trace)] = "print"
          /\ Count(trace, "print") = 1
          /\ Count(trace, "create") = 1
    /\ pc = "aborted" => stdout = <<>> /\ Count(trace, "print") = 0
    /\ pc = "done" => Len(stdout) = 1

\* A request was sent, it failed, and the run ended without output.
C4_Witness ==
    pc = "aborted" /\ netCalls = 1 /\ error = "ValidationError" /\ stdout = <<>>

\* C5: at most one request is issued and at most one is in flight; an
\* error raised by the request is never replaced or cleared, no request
\* follows it, and the step after it ends the run as aborted.
C5_NoRetry ==
    /\ [](/\ Count(trace, "create") <= 1
          /\ netCalls <= 1
          /\ inFlight <= 1
          /\ error # "none" => pc \in {"raising", "aborted"})
    /\ [][/\ error # "none" => error' = error /\ netCalls' = netCalls
          /\ pc = "raising" => pc' = "aborted"]_vars

\* The request raised ServiceError and the run ended with that error.
C5_Witness ==
    /\ pc = "aborted"
    /\ error = "ServiceError"
    /\ netCalls = 1
    /\ Count(trace, "create") = 1

\* C7, as claimed: whatever the content of the assistant message, the text
\* written to standard output contains it symbol for symbol.
C7_ContentVerbatim ==
    pc = "done" => Contains(Written, response.content)

\* C7, amended: when the content has no backslash, no newline (or other
\* character repr() escapes) and not both kinds of quote, the text written
\* to standard output contains it symbol for symbol.
C7_PlainContentVerbatim ==
    (pc = "done" /\ Plain(response.content)) =>
        Contains(Written, response.content)

\* A content with a quote in it was printed.
C7_Witness ==
    /\ pc = "done"
    /\ Plain(response.content)
    /\ Len(response.content) >= 2
    /\ SQ \in Range(response.content)

\* C8: load_dotenv is the first step and runs once; without a .env file it
\* changes no environment variable, raises nothing and the script goes on.
C8_LoaderFirstOnce ==
    /\ [](/\ trace # <<>> => trace[1] = "load_dotenv"
          /\ Count(trace, "load_dotenv") <= 1
          /\ pc # "start" => Count(trace, "load_dotenv") = 1)
    /\ [][(pc = "start" /\ ~dotenv.present) =>
             /\ environ' = environ
             /\ error' = "none"
             /\ pc' = "loaded"]_vars

\* A whole run without a .env file, the key coming from the environment.
C8_Witness ==
    pc = "done" /\ ~dotenv.present /\ environ[API_KEY] = <<"K">>

\* C9: once load_dotenv has run no step changes the environment, and no
\* write to standard output contains the value of the credential.
C9_CredentialStable ==
    /\ [][pc # "start" => environ' = environ]_vars
    /\ [](\A i \in 1..Len(stdout) :
             /\ "K" \notin Range(stdout[i])
             /\ environ[API_KEY] \notin {NoValue, <<>>} =>
                   ~Contains(stdout[i], environ[API_KEY]))

\* The key came from the .env file and the response was printed.
C9_Witness ==
    /\ pc = "done"
    /\ dotenv.present
    /\ client.api_key = <<"K">>
    /\ dotenv.vars[API_KEY] = <<"K">>
    /\ Len(stdout) = 1

\* C10: a request is sent, and is in flight, only on a client that has
\* been constructed and not yet released.
C10_RequestOnLiveClient ==
    /\ [](/\ inFlight > 0 => client.state = "live" /\ released = 0
          /\ netCalls > 0 => client.state # "none")
    /\ [][netCalls' # netCalls =>
             /\ client.state = "live"
             /\ client'.state = "live"
             /\ released = 0]_vars

\* The request is in flight.
C10_Witness ==
    pc = "waiting" /\ inFlight = 1 /\ client.state = "live"

====
